---- MODULE Spec2Model ----
(***************************************************************************)
(* Model of .buildkite/autogenerate_pipeline.py: the Buildkite pipeline    *)
(* generator of rust-vmm-ci.                                               *)
(*                                                                         *)
(* Python values are represented as follows.                               *)
(*   - a dict is a function whose domain is its set of keys; a dict with   *)
(*     a fixed set of keys is written as a record;                         *)
(*   - a list is a sequence; list index k of Python is position k + 1;     *)
(*   - a JSON scalar is the string of its JSON text ("true", "linux");     *)
(*   - a command string is the sequence of its pieces, the placeholder     *)
(*     "{target_platform}" being one piece, so "" is the empty sequence;   *)
(*   - the value under a test's 'platform' key is tagged with its Python   *)
(*     type: [list |-> <<...>>] for a list, [str |-> "..."] for a string;  *)
(*   - an environment variable is Unset, or the document its JSON text     *)
(*     encodes;                                                            *)
(*   - an exception is the string "<Type>: <message>", "" meaning none.    *)
(***************************************************************************)
EXTENDS Integers, Sequences, FiniteSets, TLC

VARIABLES
    env,          \* X86_AGENT_TAGS, AARCH64_AGENT_TAGS, DOCKER_PLUGIN_CONFIG
    steps,        \* BuildkiteConfig.__instance.steps (the singleton's list)
    config_file,  \* the contents of the file generate_pipeline opened
    json_cfg,     \* the document object handed to BuildkiteConfig.build
    pc,           \* position inside generate_pipeline
    error,        \* the exception the last build raised, "" if none
    stdout,       \* the documents dumped to sys.stdout, in order
    calls         \* number of generate_pipeline calls started in the process

vars == <<env, steps, config_file, json_cfg, pc, error, stdout, calls>>

-----------------------------------------------------------------------------
(* Bounds of the model.                                                    *)

MaxTests == 2
MaxCalls == 2

-----------------------------------------------------------------------------
(* Module constants and Python helpers.                                    *)

CONTAINER_VERSION == "v12"
DOCKER_PLUGIN_VERSION == "v3.8.0"

DockerKey == "docker#" \o DOCKER_PLUGIN_VERSION

EmptyDict == [k \in {} |-> ""]

\* for key, val in cfg.items(): target[key] = val
Update(target, cfg) ==
    [k \in DOMAIN target \cup DOMAIN cfg |->
        IF k \in DOMAIN cfg THEN cfg[k] ELSE target[k]]

\* d[key] = val
Put(d, key, val) ==
    [k \in DOMAIN d \cup {key} |-> IF k = key THEN val ELSE d[k]]

\* str.replace(old, new) on a command given by its pieces
Replace(command, old, new) ==
    [i \in DOMAIN command |-> IF command[i] = old THEN new ELSE command[i]]

PyList(s) == [list |-> s]
PyStr(s) == [str |-> s]

Unset == [unset |-> TRUE]

\* `if env_var:` -- None (and the empty string) are falsy
EnvSet(env_var) == env_var # Unset

ErrNoTests == "AssertionError: Input is missing list of tests."
ErrNoPlatforms == "AssertionError: Input is missing platforms."
ErrNoTestName == "AssertionError: Step is missing test name."
ErrNoCommand == "AssertionError: Step is missing command."
ErrNoPlatform == "AssertionError: Step is missing platform."
ErrWrongEnv == "AssertionError: Wrong environment variable config."
ErrLenOfNone == "TypeError: object of type 'NoneType' has no len()"
ErrKey == "KeyError"

-----------------------------------------------------------------------------
(* BuildkiteStep                                                           *)

\* BuildkiteStep.__init__: the default values
StepInit ==
    [retry |-> [automatic |-> "false"],
     agents |-> [os |-> "linux"],
     plugins |-> << (DockerKey :>
                      (("image" :> ("rustvmm/dev:" \o CONTAINER_VERSION))
                       @@ ("always-pull" :> "true"))) >>]

\* BuildkiteStep._add_docker_config
AddDockerConfig(self, cfg) ==
    IF DOMAIN cfg # {}
    THEN [self EXCEPT !.plugins[1][DockerKey] = Update(@, cfg)]
    ELSE self

\* the agent platform tag of BuildkiteStep.build
AgentPlatformPlain(platform) == platform \o ".metal"
AgentPlatform(platform) ==
    IF platform = "aarch64" THEN "arm" \o ".metal" ELSE platform \o ".metal"

\* input.get('docker_plugin'); None is falsy like the empty dict
DockerPluginOf(input) ==
    IF "docker_plugin" \in DOMAIN input THEN input.docker_plugin ELSE EmptyDict

\* BuildkiteStep().build(input), `input` being a test entry whose 'platform'
\* BuildkiteConfig.build has set to one platform string.
\* The result is [err, out]: the exception raised, or the step dictionary.
StepBuild(input) ==
    LET platform == input.platform.str IN
    IF "test_name" \notin DOMAIN input \/ input.test_name = ""
    THEN [err |-> ErrNoTestName]
    ELSE IF "command" \notin DOMAIN input \/ input.command = <<>>
    THEN [err |-> ErrNoCommand]
    ELSE IF platform = ""
    THEN [err |-> ErrNoPlatform]
    ELSE
      LET self == [StepInit EXCEPT
                     !.agents = Put(@, "platform", AgentPlatform(platform))]
          built == AddDockerConfig(self, DockerPluginOf(input))
      IN [err |-> "",
          out |-> [label |-> input.test_name \o "-" \o platform,
                   command |-> Replace(input.command, "{target_platform}",
                                       platform),
                   retry |-> built.retry,
                   agents |-> built.agents,
                   plugins |-> built.plugins]]

-----------------------------------------------------------------------------
(* BuildkiteConfig                                                         *)
(* The loops of build work on a record st:                                 *)
(*   steps      self.steps                                                 *)
(*   tests      input['tests'] (the entries are mutated in place)          *)
(*   test_index the local dictionary test_name -> idx                      *)
(*   idx        the local counter                                          *)
(*   err        the exception that ended the call, "" if none              *)

\* The inner loop of build: `for platform in platforms` for tests[i],
\* from position j of the copied platform list.
RECURSIVE BuildPlatforms(_, _, _, _)
BuildPlatformsFirstOnly(st, i, platforms, j) ==
    IF j > 1 THEN st
    ELSE LET test == [st.tests[i] EXCEPT !.platform = PyStr(platforms[j])]
             r == StepBuild(test)
         IN IF r.err # ""
            THEN [st EXCEPT !.tests[i] = test, !.err = r.err]
            ELSE [st EXCEPT !.tests[i] = test,
                            !.steps = Append(@, r.out),
                            !.test_index = Put(@, test.test_name, st.idx),
                            !.idx = @ + 1]
BuildPlatforms(st, i, platforms, j) ==
    IF j > Len(platforms) THEN st
    ELSE LET test == [st.tests[i] EXCEPT !.platform = PyStr(platforms[j])]
             r == StepBuild(test)
         IN IF r.err # ""
            THEN [st EXCEPT !.tests[i] = test, !.err = r.err]
            ELSE BuildPlatforms(
                   [st EXCEPT !.tests[i] = test,
                              !.steps = Append(@, r.out),
                              !.test_index = Put(@, test.test_name, st.idx),
                              !.idx = @ + 1],
                   i, platforms, j + 1)

\* The outer loop of build: `for test in tests`, from position i.
RECURSIVE BuildTests(_, _)
BuildTests(st, i) ==
    IF i > Len(st.tests) THEN st
    ELSE LET test == st.tests[i] IN
         IF "platform" \notin DOMAIN test
         THEN [st EXCEPT !.err = ErrLenOfNone]
         ELSE IF Len(test.platform.list) = 0
         THEN [st EXCEPT !.err = ErrNoPlatforms]
         ELSE LET st2 == BuildPlatforms(st, i, test.platform.list, 1)
              IN IF st2.err # "" THEN st2 ELSE BuildTests(st2, i + 1)

\* _env_override_agent_tags, the loop over env_cfg['tests'] for one
\* (env_var, platform) pair, from position n.
RECURSIVE OverrideAgentTags(_, _, _, _)
OverrideAgentTags(st, env_cfg, platform, n) ==
    IF n > Len(env_cfg.tests) THEN st
    ELSE LET test_name == env_cfg.tests[n] IN
         IF test_name \notin DOMAIN st.test_index
         THEN [st EXCEPT !.err = ErrKey]
         ELSE LET k == st.test_index[test_name] + 1
                  agents == st.steps[k].agents
              IN IF "platform" \notin DOMAIN agents
                 THEN [st EXCEPT !.err = ErrKey]
                 ELSE IF agents.platform # platform
                 THEN [st EXCEPT !.err = ErrWrongEnv]
                 ELSE OverrideAgentTags(
                        [st EXCEPT !.steps[k].agents =
                                      Update(EmptyDict, env_cfg.cfg)],
                        env_cfg, platform, n + 1)

\* BuildkiteConfig._env_override_agent_tags
EnvOverrideAgentTags(st, e) ==
    LET s1 == IF EnvSet(e.X86_AGENT_TAGS)
              THEN OverrideAgentTags(st, e.X86_AGENT_TAGS, "x86_64.metal", 1)
              ELSE st
    IN IF s1.err # "" THEN s1
       ELSE IF EnvSet(e.AARCH64_AGENT_TAGS)
       THEN OverrideAgentTags(s1, e.AARCH64_AGENT_TAGS, "arm.metal", 1)
       ELSE s1

\* _env_add_docker_config, the loop over env_cfg['tests'] from position n.
RECURSIVE AddEnvDockerConfig(_, _, _)
AddEnvDockerConfig(st, env_cfg, n) ==
    IF n > Len(env_cfg.tests) THEN st
    ELSE LET test_name == env_cfg.tests[n] IN
         IF test_name \notin DOMAIN st.test_index
         THEN [st EXCEPT !.err = ErrKey]
         ELSE LET k == st.test_index[test_name] + 1
              IN AddEnvDockerConfig(
                   [st EXCEPT !.steps[k].plugins[1][DockerKey] =
                                 Update(@, env_cfg.cfg)],
                   env_cfg, n + 1)

\* BuildkiteConfig._env_add_docker_config
EnvAddDockerConfig(st, e) ==
    IF EnvSet(e.DOCKER_PLUGIN_CONFIG)
    THEN AddEnvDockerConfig(st, e.DOCKER_PLUGIN_CONFIG, 1)
    ELSE st

\* BuildkiteConfig().build(input) on a singleton whose steps are self_steps,
\* in a process whose environment is e. The result is [err, steps, input]:
\* the exception raised, the singleton's steps and the input document as the
\* call leaves them.
ConfigBuild(self_steps, input, e) ==
    IF "tests" \notin DOMAIN input \/ Len(input.tests) = 0
    THEN [err |-> ErrNoTests, steps |-> self_steps, input |-> input]
    ELSE LET st0 == [steps |-> self_steps, tests |-> input.tests,
                     test_index |-> EmptyDict, idx |-> 0, err |-> ""]
             st1 == BuildTests(st0, 1)
             st2 == IF st1.err # "" THEN st1 ELSE EnvOverrideAgentTags(st1, e)
             st3 == IF st2.err # "" THEN st2 ELSE EnvAddDockerConfig(st2, e)
         IN [err |-> st3.err, steps |-> st3.steps,
             input |-> [input EXCEPT !.tests = st3.tests]]

-----------------------------------------------------------------------------
(* Inputs: the test-description documents and the environments.            *)

TestNames == {"a", "b"}

PlatformLists ==
    {<<"x86_64">>, <<"aarch64">>,
     <<"x86_64", "aarch64">>, <<"aarch64", "x86_64">>}

CommandTemplate == <<"cargo test --target ", "{target_platform}">>

TestDockerPlugin == [devices |-> "/dev/kvm", volumes |-> "/tmp:/tmp"]

Without(d, key) == [k \in DOMAIN d \ {key} |-> d[k]]

PlainTests ==
    {[test_name |-> n, command |-> CommandTemplate, platform |-> PyList(p)] :
        n \in TestNames, p \in PlatformLists}

ValidTests ==
    PlainTests \cup
    {[test_name |-> t.test_name, command |-> t.command,
      platform |-> t.platform, docker_plugin |-> TestDockerPlugin] :
        t \in PlainTests}

\* Entries with a mandatory key absent or empty.
InvalidTests ==
    LET t == [test_name |-> "a", command |-> CommandTemplate,
              platform |-> PyList(<<"x86_64">>)]
    IN {Without(t, "test_name"), [t EXCEPT !.test_name = ""],
        Without(t, "command"), [t EXCEPT !.command = <<>>],
        Without(t, "platform"), [t EXCEPT !.platform = PyList(<<>>)],
        [t EXCEPT !.platform = PyList(<<"">>)]}

TestEntries == ValidTests \cup InvalidTests

Documents ==
    {[tests |-> s] : s \in UNION {[1..n -> TestEntries] : n \in 0..MaxTests}}

\* The documents of the library calls: at most one test each.
LibDocuments == {d \in Documents : Len(d.tests) <= 1}

X86Cfg == [platform |-> "x86_64.metal", queue |-> "kvm"]
ArmCfg == [queue |-> "gpu"]
DockerCfg == [devices |-> "/dev/vhost-vdpa-0", privileged |-> "true"]

OverrideTests == {<<"a">>, <<"b", "a">>}

OverrideDocs(cfg) == {[tests |-> t, cfg |-> cfg] : t \in OverrideTests}

Environments ==
    [X86_AGENT_TAGS : {Unset} \cup OverrideDocs(X86Cfg),
     AARCH64_AGENT_TAGS : {Unset} \cup OverrideDocs(ArmCfg),
     DOCKER_PLUGIN_CONFIG : {Unset} \cup OverrideDocs(DockerCfg)]

-----------------------------------------------------------------------------
(* The process: the module is imported, then generate_pipeline runs.       *)

\* Import of the module: the environment is read once, the singleton does
\* not exist yet (its steps start empty on the first BuildkiteConfig()).
Init ==
    /\ env \in Environments
    /\ steps = <<>>
    /\ config_file = [tests |-> <<>>]
    /\ json_cfg = [tests |-> <<>>]
    /\ pc = "idle"
    /\ error = ""
    /\ stdout = <<>>
    /\ calls = 0

\* generate_pipeline: json_cfg = json.load(json_file)
LoadDocument(d) ==
    /\ config_file' = d
    /\ json_cfg' = d
    /\ pc' = "loaded"
    /\ error' = ""
    /\ calls' = calls + 1
    /\ UNCHANGED <<env, steps, stdout>>

\* The script: generate_pipeline is called once, by __main__.
Load ==
    /\ pc = "idle"
    /\ \E d \in Documents : LoadDocument(d)

\* The library: generate_pipeline is called again in the same process.
LibLoad ==
    /\ pc \in {"idle", "dumped", "failed"}
    /\ calls < MaxCalls
    /\ \E d \in LibDocuments : LoadDocument(d)

\* generate_pipeline: config = BuildkiteConfig(); output = config.build(json_cfg)
Build ==
    /\ pc = "loaded"
    /\ LET r == ConfigBuild(steps, json_cfg, env)
       IN /\ steps' = r.steps
          /\ json_cfg' = r.input
          /\ error' = r.err
          /\ pc' = IF r.err = "" THEN "built" ELSE "failed"
    /\ UNCHANGED <<env, config_file, stdout, calls>>

\* generate_pipeline: yaml.dump(output, sys.stdout, sort_keys=False);
\* output is the singleton's __dict__, {'steps': self.steps}.
DumpAlsoAfterFailure ==
    /\ pc \in {"built", "failed"}
    /\ stdout' = Append(stdout, [steps |-> steps])
    /\ pc' = "dumped"
    /\ UNCHANGED <<env, steps, config_file, json_cfg, error, calls>>
Dump ==
    /\ pc = "built"
    /\ stdout' = Append(stdout, [steps |-> steps])
    /\ pc' = "dumped"
    /\ UNCHANGED <<env, steps, config_file, json_cfg, error, calls>>

Next == Load \/ Build \/ Dump

Spec == Init /\ [][Next]_vars

LibNext == LibLoad \/ Build \/ Dump

LibSpec == Init /\ [][LibNext]_vars

-----------------------------------------------------------------------------
(* Vocabulary of the properties.                                           *)

Finished == pc \in {"built", "dumped"}
Returned == pc \in {"built", "dumped", "failed"}

\* A test entry with a non-empty name, command and platform list.
ValidTest(t) ==
    /\ "test_name" \in DOMAIN t /\ t.test_name # ""
    /\ "command" \in DOMAIN t /\ t.command # <<>>
    /\ "platform" \in DOMAIN t /\ Len(t.platform.list) > 0
    /\ \A j \in DOMAIN t.platform.list : t.platform.list[j] # ""

ValidDoc(d) ==
    /\ Len(d.tests) > 0
    /\ \A i \in DOMAIN d.tests : ValidTest(d.tests[i])

\* The (test, platform) pairs of a valid document: tests in document order,
\* platforms in list order within each test.
RECURSIVE PairsFrom(_, _)
PairsFrom(tests, i) ==
    IF i > Len(tests) THEN <<>>
    ELSE [j \in 1..Len(tests[i].platform.list) |->
             [test |-> i, test_name |-> tests[i].test_name,
              platform |-> tests[i].platform.list[j]]]
         \o PairsFrom(tests, i + 1)

Pairs(d) == PairsFrom(d.tests, 1)

RECURSIVE SumPlatformsFrom(_, _)
SumPlatformsFrom(tests, i) ==
    IF i > Len(tests) THEN 0
    ELSE Len(tests[i].platform.list) + SumPlatformsFrom(tests, i + 1)

DockerCfgOf(step) == step.plugins[1][DockerKey]

DefaultAgents(tag) == [os |-> "linux", platform |-> tag]

ClassOf(platform) == IF platform = "aarch64" THEN "arm.metal" ELSE "x86_64.metal"

Listed(override, name) ==
    /\ EnvSet(override)
    /\ \E n \in DOMAIN override.tests : override.tests[n] = name

\* A document has a step of test `name` in one of the platform classes.
HasStep(d, name, classes) ==
    \E i \in DOMAIN Pairs(d) :
        Pairs(d)[i].test_name = name /\ ClassOf(Pairs(d)[i].platform) \in classes

NoEnv ==
    [X86_AGENT_TAGS |-> Unset, AARCH64_AGENT_TAGS |-> Unset,
     DOCKER_PLUGIN_CONFIG |-> Unset]

BuiltFor(step, platform) ==
    \E n \in TestNames : step.label = n \o "-" \o platform

ValidationErrors == {ErrNoTestName, ErrNoCommand, ErrNoPlatform, ErrNoPlatforms}

-----------------------------------------------------------------------------
(* C1: a single generation run on a fresh process that completes on a      *)
(* valid document has emitted exactly one step per (test, platform) pair,  *)
(* tests in document order and platforms in list order within each test;   *)
(* the number of steps is the sum of the platform-list lengths.            *)
C1_OneStepPerPair ==
    (calls = 1 /\ Finished /\ ValidDoc(config_file)) =>
        LET p == Pairs(config_file) IN
        /\ Len(steps) = SumPlatformsFrom(config_file.tests, 1)
        /\ Len(steps) = Len(p)
        /\ \A i \in DOMAIN steps :
              steps[i].label = p[i].test_name \o "-" \o p[i].platform

\* a completed run over two tests of two platforms each, overrides set
C1_Witness ==
    /\ calls = 1 /\ pc = "built" /\ Len(steps) = 4
    /\ steps[1].label = "b-aarch64" /\ steps[4].label = "a-x86_64"
    /\ EnvSet(env.DOCKER_PLUGIN_CONFIG)

(* C2: with DOCKER_PLUGIN_CONFIG set, after build every step of a listed   *)
(* test (one per platform of the test) holds every key of the override's   *)
(* cfg with the override's value, and the steps of unlisted tests are      *)
(* what they are without the override.                                     *)
C2_DockerOverrideOnEveryStep ==
    (calls = 1 /\ Finished /\ EnvSet(env.DOCKER_PLUGIN_CONFIG)) =>
        LET p == Pairs(config_file)
            cfg == env.DOCKER_PLUGIN_CONFIG.cfg
            plain == ConfigBuild(<<>>, config_file,
                                 [env EXCEPT !.DOCKER_PLUGIN_CONFIG = Unset])
        IN \A i \in DOMAIN steps :
              IF Listed(env.DOCKER_PLUGIN_CONFIG, p[i].test_name)
              THEN \A k \in DOMAIN cfg :
                      /\ k \in DOMAIN DockerCfgOf(steps[i])
                      /\ DockerCfgOf(steps[i])[k] = cfg[k]
              ELSE steps[i] = plain.steps[i]

(* C3: when an agent-tag override lists tests that have a step in the      *)
(* override's platform class, generation completes, each step of a listed  *)
(* test in that class has agents equal to exactly the override's cfg, and  *)
(* every other step keeps its default agents.                              *)
C3_AgentOverridePerClass ==
    (/\ calls = 1 /\ Returned /\ ValidDoc(config_file)
     /\ env.DOCKER_PLUGIN_CONFIG = Unset
     /\ EnvSet(env.X86_AGENT_TAGS) \/ EnvSet(env.AARCH64_AGENT_TAGS)
     /\ \A n \in TestNames :
           /\ Listed(env.X86_AGENT_TAGS, n) =>
                 HasStep(config_file, n, {"x86_64.metal"})
           /\ Listed(env.AARCH64_AGENT_TAGS, n) =>
                 HasStep(config_file, n, {"arm.metal"}))
    => /\ pc # "failed"
       /\ LET p == Pairs(config_file) IN
          \A i \in DOMAIN steps :
             steps[i].agents =
                IF /\ ClassOf(p[i].platform) = "x86_64.metal"
                   /\ Listed(env.X86_AGENT_TAGS, p[i].test_name)
                THEN env.X86_AGENT_TAGS.cfg
                ELSE IF /\ ClassOf(p[i].platform) = "arm.metal"
                        /\ Listed(env.AARCH64_AGENT_TAGS, p[i].test_name)
                THEN env.AARCH64_AGENT_TAGS.cfg
                ELSE DefaultAgents(ClassOf(p[i].platform))

(* C4, as claimed: every emitted step built for aarch64 has platform tag   *)
(* arm.metal in the final document, whatever the overrides.                *)
C4_Aarch64AlwaysArmMetal ==
    Finished =>
        \A i \in DOMAIN steps :
            BuiltFor(steps[i], "aarch64") =>
                /\ "platform" \in DOMAIN steps[i].agents
                /\ steps[i].agents.platform = "arm.metal"

(* C4, amended: the agents mapping of every step built for aarch64 is the  *)
(* default {os: linux, platform: arm.metal}, or, once an agent-tag         *)
(* override has replaced it, exactly that override's cfg.                  *)
C4_Aarch64DefaultOrOverride ==
    \A i \in DOMAIN steps :
        BuiltFor(steps[i], "aarch64") =>
            \/ steps[i].agents = DefaultAgents("arm.metal")
            \/ /\ EnvSet(env.AARCH64_AGENT_TAGS)
               /\ steps[i].agents = env.AARCH64_AGENT_TAGS.cfg
            \/ /\ EnvSet(env.X86_AGENT_TAGS)
               /\ steps[i].agents = env.X86_AGENT_TAGS.cfg

\* a completed run with one aarch64 step overridden and one left at default
C4_Witness ==
    /\ Finished
    /\ \E i, j \in DOMAIN steps :
          /\ BuiltFor(steps[i], "aarch64") /\ BuiltFor(steps[j], "aarch64")
          /\ steps[i].agents = ArmCfg
          /\ steps[j].agents = DefaultAgents("arm.metal")

(* C5: when every entry of the overrides that are set names a test with    *)
(* no corresponding step (not in the document, or, for an agent-tag        *)
(* override, not in its platform class), build completes without error     *)
(* and the steps are those built without any override.                     *)
C5_UnmatchedOverrideIgnored ==
    (/\ calls = 1 /\ Returned /\ ValidDoc(config_file)
     /\ env # NoEnv
     /\ \A n \in TestNames :
           /\ Listed(env.X86_AGENT_TAGS, n) =>
                 ~HasStep(config_file, n, {"x86_64.metal"})
           /\ Listed(env.AARCH64_AGENT_TAGS, n) =>
                 ~HasStep(config_file, n, {"arm.metal"})
           /\ Listed(env.DOCKER_PLUGIN_CONFIG, n) =>
                 ~HasStep(config_file, n, {"x86_64.metal", "arm.metal"}))
    => /\ pc # "failed"
       /\ error = ""
       /\ steps = ConfigBuild(<<>>, config_file, NoEnv).steps

(* C6: a document with a test entry whose test_name, command or platform   *)
(* is absent or empty makes generation fail with one of the descriptive    *)
(* validation errors.                                                      *)
C6_DescriptiveValidationError ==
    (Returned /\ Len(config_file.tests) > 0 /\ ~ValidDoc(config_file)) =>
        /\ pc = "failed"
        /\ error \in ValidationErrors

(* C7: when a test entry lacks test_name, command or platform the run      *)
(* fails with nothing written to stdout; stdout is written only after the  *)
(* build has returned, and then holds the complete document: every step    *)
(* built and every override applied.                                       *)
C7_NoOutputBeforeBuildCompletes ==
    /\ (Returned /\ ~ValidDoc(config_file)) => (pc = "failed" /\ stdout = <<>>)
    /\ error # "" => stdout = <<>>
    /\ stdout # <<>> =>
          /\ pc = "dumped"
          /\ stdout = << [steps |-> steps] >>
          /\ LET r == ConfigBuild(<<>>, config_file, env)
             IN r.err = "" /\ r.steps = steps

\* a run that failed on its second test, the first test's steps built
C7_Witness ==
    /\ pc = "failed" /\ error = ErrNoCommand
    /\ Len(steps) = 2 /\ stdout = <<>>

(* C8: the document a call returns holds exactly the steps a fresh process *)
(* builds for that call's input document, whatever the earlier calls.      *)
C8_CallsIndependent ==
    pc = "built" => steps = ConfigBuild(<<>>, config_file, env).steps

(* C9: every step of a test that has a docker_plugin mapping and is listed *)
(* in DOCKER_PLUGIN_CONFIG holds the environment value for each key of the *)
(* override's cfg, the per-test value for each key only docker_plugin has, *)
(* and still has the default keys image and always-pull.                   *)
C9_DockerPrecedence ==
    (calls = 1 /\ Finished /\ EnvSet(env.DOCKER_PLUGIN_CONFIG)) =>
        LET p == Pairs(config_file)
            cfg == env.DOCKER_PLUGIN_CONFIG.cfg
        IN \A i \in DOMAIN steps :
              LET t == config_file.tests[p[i].test]
                  dc == DockerCfgOf(steps[i])
              IN ("docker_plugin" \in DOMAIN t
                    /\ Listed(env.DOCKER_PLUGIN_CONFIG, t.test_name)) =>
                   /\ DOMAIN cfg \cup DOMAIN t.docker_plugin \subseteq DOMAIN dc
                   /\ \A k \in DOMAIN cfg : dc[k] = cfg[k]
                   /\ \A k \in DOMAIN t.docker_plugin \ DOMAIN cfg :
                         dc[k] = t.docker_plugin[k]
                   /\ {"image", "always-pull"} \subseteq DOMAIN dc

(* C10: build leaves the input document unchanged, whether it completes or *)
(* fails: every entry's test_name, command, platform list and              *)
(* docker_plugin mapping are what they were before the call.               *)
C10_InputUnchanged ==
    Returned => json_cfg = config_file

====
